---- MODULE Spec2Model ----
(***************************************************************************)
(* A model of detector_abhinay_dasi.py: the PII detector's per-record      *)
(* evaluator process_record (classification, masking, aggregation and      *)
(* rollback) and the batch driver main that feeds it CSV rows.             *)
(*                                                                         *)
(* A Python str is a sequence of one-character strings, so that regular    *)
(* expressions, slices and splits are computed character by character.     *)
(* A JSON value is [kind, s]: kind "str" with s its characters, or a       *)
(* non-string kind ("num", "null", ...) with s its JSON text.  A dict is   *)
(* a sequence of [key, val] items with distinct keys, in insertion order.  *)
(* The characters of the sample inputs are ASCII.                          *)
(***************************************************************************)
EXTENDS Integers, Sequences, FiniteSets, TLC

VARIABLES
    pc,           \* process_record: "idle", "loop" (line 69) or "done" (line 113)
    record,       \* the items of the argument that record.items() has yielded so far
    redacted,     \* line 59
    is_pii,       \* line 58
    combo_flags,  \* line 62
    prev_pii,     \* history: the call before this one returned is_pii = True
    mpc,          \* main: "start", "rows", "done" or "failed" (uncaught exception)
    header,       \* line 127, <<>> until read
    rows,         \* the data rows the csv reader has yielded so far
    out           \* the rows written to the output file

coreVars == <<pc, record, redacted, is_pii, combo_flags, prev_pii>>
mainVars == <<mpc, header, rows, out>>
vars == <<pc, record, redacted, is_pii, combo_flags, prev_pii, mpc, header, rows, out>>

\* The largest number of fields of a record handed to process_record step by step.
MaxFields == 3
\* The largest number of data rows of an input file.
MaxRows == 3

-----------------------------------------------------------------------------
\* Characters and Python's string operations.

Digits == {"0", "1", "2", "3", "4", "5", "6", "7", "8", "9"}
LowerSeq == <<"a", "b", "c", "d", "e", "f", "g", "h", "i", "j", "k", "l", "m",
              "n", "o", "p", "q", "r", "s", "t", "u", "v", "w", "x", "y", "z">>
UpperSeq == <<"A", "B", "C", "D", "E", "F", "G", "H", "I", "J", "K", "L", "M",
              "N", "O", "P", "Q", "R", "S", "T", "U", "V", "W", "X", "Y", "Z">>
Lowers == {LowerSeq[i] : i \in 1..26}
Uppers == {UpperSeq[i] : i \in 1..26}
\* \w of a str pattern, and the class [\w\.\-]
WordChars == Digits \cup Lowers \cup Uppers \cup {"_"}
UpiUserChars == WordChars \cup {".", "-"}
\* the characters str.split() splits on
Whitespace == {" ", "\t", "\n", "\r"}

Min(a, b) == IF a < b THEN a ELSE b
Max(a, b) == IF a > b THEN a ELSE b

\* value[:n]
Prefix(s, n) == SubSeq(s, 1, Min(n, Len(s)))
\* value[-n:]
Suffix(s, n) == SubSeq(s, Max(1, Len(s) - n + 1), Len(s))

\* c.lower()
LowerChar(c) ==
    IF c \in Uppers THEN LowerSeq[CHOOSE i \in 1..26 : UpperSeq[i] = c] ELSE c
\* s.lower()
Lower(s) == [i \in 1..Len(s) |-> LowerChar(s[i])]
\* s.startswith(p)
StartsWith(s, p) == Len(s) >= Len(p) /\ SubSeq(s, 1, Len(p)) = p

\* sep in s
Contains(s, sep) == \E i \in 1..Len(s) : s[i] = sep

\* s.split(sep) for a one-character separator: one more part than separators
RECURSIVE SplitOn(_, _)
SplitOn(s, sep) ==
    IF ~Contains(s, sep) THEN <<s>>
    ELSE LET i == CHOOSE j \in 1..Len(s) :
                      s[j] = sep /\ \A k \in 1..(j - 1) : s[k] # sep
         IN  <<SubSeq(s, 1, i - 1)>> \o SplitOn(SubSeq(s, i + 1, Len(s)), sep)

\* s.split(): the maximal runs of non-whitespace characters
RECURSIVE SplitWs(_)
SplitWs(s) ==
    IF s = <<>> THEN <<>>
    ELSE IF s[1] \in Whitespace THEN SplitWs(Tail(s))
    ELSE LET n == CHOOSE j \in 1..Len(s) :
                      /\ \A k \in 1..j : s[k] \notin Whitespace
                      /\ (j = Len(s) \/ s[j + 1] \in Whitespace)
         IN  <<SubSeq(s, 1, n)>> \o SplitWs(SubSeq(s, n + 1, Len(s)))

\* " ".join(parts)
RECURSIVE JoinSp(_)
JoinSp(parts) ==
    IF parts = <<>> THEN <<>>
    ELSE IF Len(parts) = 1 THEN parts[1]
    ELSE parts[1] \o <<" ">> \o JoinSp(Tail(parts))

-----------------------------------------------------------------------------
\* The compiled patterns, lines 7-10, as pattern.match(value) decides them.

\* "$" without re.MULTILINE: at the end of the string, or just before a
\* line break that is the string's last character.
DollarAt(s, n) == n = Len(s) \/ (n = Len(s) - 1 /\ s[Len(s)] = "\n")

PhoneLen == 10
AadharLen == 12
PassportDigits == 7
UpiMinBank == 2

\* ^\d{n}$
DigitsPattern(s, n) ==
    /\ Len(s) >= n
    /\ \A i \in 1..n : s[i] \in Digits
    /\ DollarAt(s, n)

PHONE_PATTERN(s) == DigitsPattern(s, PhoneLen)
AADHAR_PATTERN(s) == DigitsPattern(s, AadharLen)

\* ^[A-Z][0-9]{7}$ with re.IGNORECASE
PASSPORT_PATTERN(s) ==
    /\ Len(s) >= 1 + PassportDigits
    /\ s[1] \in Uppers \cup Lowers
    /\ \A i \in 2..(1 + PassportDigits) : s[i] \in Digits
    /\ DollarAt(s, 1 + PassportDigits)

\* ^[\w\.\-]+@[a-z]{2,}$
UPI_PATTERN(s) ==
    \E a \in 2..Len(s) :
        /\ s[a] = "@"
        /\ \A i \in 1..(a - 1) : s[i] \in UpiUserChars
        /\ \E e \in (a + UpiMinBank)..Len(s) :
              /\ \A i \in (a + 1)..e : s[i] \in Lowers
              /\ DollarAt(s, e)

-----------------------------------------------------------------------------
\* The masking helpers, lines 13-54.

XXX == <<"X", "X", "X">>
REDACTED_EMAIL ==
    <<"[", "R", "E", "D", "A", "C", "T", "E", "D", "_", "E", "M", "A", "I", "L", "]">>
REDACTED_ADDRESS ==
    <<"[", "R", "E", "D", "A", "C", "T", "E", "D", "_",
      "A", "D", "D", "R", "E", "S", "S", "]">>
REDACTED_IP == <<"[", "R", "E", "D", "A", "C", "T", "E", "D", "_", "I", "P", "]">>

mask_phone(value) == Prefix(value, 2) \o XXX \o XXX \o Suffix(value, 2)

mask_aadhar(value) ==
    Prefix(value, 4) \o <<" ", "X", "X", "X", "X", " ", "X", "X", "X", "X", " ">>
        \o Suffix(value, 4)

mask_passport(value) == <<value[1]>> \o XXX \o XXX \o <<"X">>

mask_upi(value) == Prefix(value, 2) \o XXX \o <<"@", "u", "p", "i">>

mask_name(value) ==
    LET parts == SplitWs(value)
        masked == [i \in 1..Len(parts) |->
                      IF Len(parts[i]) > 1 THEN <<parts[i][1]>> \o XXX
                      ELSE parts[i]]
    IN  JoinSp(masked)

mask_email_keep3(value) ==
    LET parts == SplitOn(value, "@")
    IN  IF Len(parts) = 2
        THEN Prefix(parts[1], 3) \o XXX \o <<"@">> \o parts[2]
        ELSE REDACTED_EMAIL
\* The unpacking of line 43 raises ValueError unless split gives two parts.
mask_email(value) ==
    LET parts == SplitOn(value, "@")
    IN  IF Len(parts) = 2
        THEN Prefix(parts[1], 2) \o XXX \o <<"@">> \o parts[2]
        ELSE REDACTED_EMAIL

mask_address(value) == REDACTED_ADDRESS

mask_ip(value) == REDACTED_IP

-----------------------------------------------------------------------------
\* Dicts, as ordered sequences of items.

Str(s) == [kind |-> "str", s |-> s]
Item(k, v) == [key |-> k, val |-> v]
Keys(d) == [i \in 1..Len(d) |-> d[i].key]
KeySet(d) == {d[i].key : i \in 1..Len(d)}
Get(d, k) == d[CHOOSE i \in 1..Len(d) : d[i].key = k].val

\* d[k] = v: an existing key keeps its place, a new key goes last.
SetItemMoved(d, k, v) ==
    SelectSeq(d, LAMBDA it : it.key # k) \o <<Item(k, v)>>
SetItem(d, k, v) ==
    IF k \in KeySet(d)
    THEN [i \in 1..Len(d) |-> IF d[i].key = k THEN Item(k, v) ELSE d[i]]
    ELSE Append(d, Item(k, v))

-----------------------------------------------------------------------------
\* process_record, lines 57-113.

ComboKeys == <<"name", "email", "address", "ip_address">>
StandaloneKeys == {"phone", "aadhar", "passport", "upi_id"}

\* lines 62-67
FreshFlags == [k \in {ComboKeys[i] : i \in 1..4} |-> FALSE]

\* lines 58-67
Fresh == [redacted |-> <<>>, is_pii |-> FALSE, combo_flags |-> FreshFlags]

\* The branch of the chain of lines 70-102 that an item takes.
NameTokens == 2
Branch(key, val) ==
    IF val.kind # "str" THEN "nonstr"
    ELSE IF key = "phone" /\ PHONE_PATTERN(val.s) THEN "phone"
    ELSE IF key = "aadhar" /\ AADHAR_PATTERN(val.s) THEN "aadhar"
    ELSE IF key = "passport" /\ PASSPORT_PATTERN(val.s) THEN "passport"
    ELSE IF key = "upi_id" /\ UPI_PATTERN(val.s) THEN "upi_id"
    ELSE IF key = "name" /\ Len(SplitWs(val.s)) >= NameTokens THEN "name"
    ELSE IF key = "email" /\ Contains(val.s, "@") THEN "email"
    ELSE IF key = "address" THEN "address"
    ELSE IF key = "ip_address" THEN "ip_address"
    ELSE "else"

\* The masked string the taken branch writes.
Masked(b, s) ==
    CASE b = "phone" -> mask_phone(s)
      [] b = "aadhar" -> mask_aadhar(s)
      [] b = "passport" -> mask_passport(s)
      [] b = "upi_id" -> mask_upi(s)
      [] b = "name" -> mask_name(s)
      [] b = "email" -> mask_email(s)
      [] b = "address" -> mask_address(s)
      [] b = "ip_address" -> mask_ip(s)

\* One iteration of the loop of line 69 on the item (key, val).
LoopBody(st, key, val) ==
    LET b == Branch(key, val)
    IN  IF b \in {"nonstr", "else"}
        THEN [st EXCEPT !.redacted = SetItem(@, key, val)]
        ELSE IF b \in StandaloneKeys
        THEN [st EXCEPT !.redacted = SetItem(@, key, Str(Masked(b, val.s))),
                        !.is_pii = TRUE]
        ELSE [st EXCEPT !.redacted = SetItem(@, key, Str(Masked(b, val.s))),
                        !.combo_flags[b] = TRUE]

\* sum(1 for v in combo_flags.values() if v)
FlagCount(flags) == Cardinality({k \in DOMAIN flags : flags[k]})

\* lines 109-111: combo_flags.items() in the order of lines 63-66
RECURSIVE UndoFrom(_, _, _, _)
UndoFrom(i, red, rec, flags) ==
    IF i > Len(ComboKeys) THEN red
    ELSE UndoFrom(i + 1,
                  IF flags[ComboKeys[i]]
                  THEN SetItem(red, ComboKeys[i], Get(rec, ComboKeys[i]))
                  ELSE red,
                  rec, flags)
UndoNothing(red, rec, flags) == red
UndoEveryKey(red, rec, flags) == rec
Undo(red, rec, flags) == UndoFrom(1, red, rec, flags)

ThresholdOfOne == 2 - 1
Threshold == 2

\* lines 105-113
Finish(st, rec) ==
    IF FlagCount(st.combo_flags) >= Threshold
    THEN [st EXCEPT !.is_pii = TRUE]
    ELSE [st EXCEPT !.redacted = Undo(st.redacted, rec, st.combo_flags)]

\* process_record(rec) as a function of its argument.
RECURSIVE Loop(_, _, _)
Loop(st, rec, i) ==
    IF i > Len(rec) THEN st
    ELSE Loop(LoopBody(st, rec[i].key, rec[i].val), rec, i + 1)
process_record(rec) ==
    LET st == Finish(Loop(Fresh, rec, 1), rec)
    IN  <<st.redacted, st.is_pii>>

-----------------------------------------------------------------------------
\* The inputs: sample items per field name, valid values and near misses.

PhoneOk == Str(<<"9", "8", "7", "6", "5", "4", "3", "2", "1", "0">>)
PhoneLong == Str(<<"9", "8", "7", "6", "5", "4", "3", "2", "1", "0", "1">>)
PhoneNl == Str(<<"9", "8", "7", "6", "5", "4", "3", "2", "1", "0", "\n">>)
PhoneNum == [kind |-> "num", s |-> <<"9", "8", "7", "6", "5", "4", "3", "2", "1", "0">>]
AadharOk == Str(<<"1", "2", "3", "4", "5", "6", "7", "8", "9", "0", "1", "2">>)
AadharNl == Str(<<"1", "2", "3", "4", "5", "6", "7", "8", "9", "0", "1", "2", "\n">>)
PassportOk == Str(<<"p", "1", "2", "3", "4", "5", "6", "7">>)
PassportShort == Str(<<"p", "1", "2", "3", "4", "5", "6">>)
UpiOk == Str(<<"u", "1", "@", "o", "k">>)
UpiUpper == Str(<<"u", "1", "@", "O", "K">>)
NameTwo == Str(<<"A", "l", " ", "B">>)
NameOne == Str(<<"R", "a", "v", "i">>)
EmailOk == Str(<<"a", "b", "c", "@", "x", ".", "i", "n">>)
EmailShort == Str(<<"a", "@", "b">>)
EmailTwoAt == Str(<<"a", "@", "@", "b">>)
EmailNoAt == Str(<<"n", "o", "a", "t">>)
AddressOk == Str(<<"1", "2", " ", "M", "G">>)
IpOk == Str(<<"1", ".", "2", ".", "3", ".", "4">>)
Empty == Str(<<>>)
CityOk == Str(<<"P", "u", "n", "e">>)
Null == [kind |-> "null", s |-> <<"n", "u", "l", "l">>]

Items ==
    {Item("phone", v) : v \in {PhoneOk, PhoneLong, PhoneNl, PhoneNum}}
    \cup {Item("aadhar", v) : v \in {AadharOk, AadharNl}}
    \cup {Item("passport", v) : v \in {PassportOk, PassportShort}}
    \cup {Item("upi_id", v) : v \in {UpiOk, UpiUpper}}
    \cup {Item("name", v) : v \in {NameTwo, NameOne}}
    \cup {Item("email", v) : v \in {EmailOk, EmailShort, EmailTwoAt, EmailNoAt}}
    \cup {Item("address", v) : v \in {AddressOk, Empty}}
    \cup {Item("ip_address", v) : v \in {IpOk, Empty}}
    \cup {Item("city", v) : v \in {CityOk, Null}}

-----------------------------------------------------------------------------
\* process_record as a state machine: one call after another, each on a dict
\* whose items the loop of line 69 draws one at a time.

Init ==
    /\ pc = "idle"
    /\ record = <<>>
    /\ redacted = <<>>
    /\ is_pii = FALSE
    /\ combo_flags = FreshFlags
    /\ prev_pii = FALSE
    /\ mpc = "start"
    /\ header = <<>>
    /\ rows = <<>>
    /\ out = <<>>

\* line 58: is_pii is a local, set anew by each call
StaleIsPii == is_pii
NewIsPii == FALSE

\* lines 57-67: the call, after any earlier call has returned
Call ==
    /\ pc \in {"idle", "done"}
    /\ pc' = "loop"
    /\ record' = <<>>
    /\ redacted' = Fresh.redacted
    /\ is_pii' = NewIsPii
    /\ combo_flags' = Fresh.combo_flags
    /\ prev_pii' = (pc = "done" /\ is_pii)
    /\ UNCHANGED mainVars

\* lines 69-102: the next item of the dict, under a key not seen before
Iterate(it) ==
    /\ pc = "loop"
    /\ Len(record) < MaxFields
    /\ it.key \notin KeySet(record)
    /\ LET st == LoopBody([redacted |-> redacted, is_pii |-> is_pii,
                           combo_flags |-> combo_flags], it.key, it.val)
       IN  /\ redacted' = st.redacted
           /\ is_pii' = st.is_pii
           /\ combo_flags' = st.combo_flags
    /\ record' = Append(record, it)
    /\ UNCHANGED <<pc, prev_pii, mainVars>>

\* lines 104-113: the dict is exhausted
Return ==
    /\ pc = "loop"
    /\ LET st == Finish([redacted |-> redacted, is_pii |-> is_pii,
                         combo_flags |-> combo_flags], record)
       IN  /\ redacted' = st.redacted
           /\ is_pii' = st.is_pii
           /\ combo_flags' = st.combo_flags
    /\ pc' = "done"
    /\ UNCHANGED <<record, prev_pii, mainVars>>

Next ==
    \/ Call
    \/ \E it \in Items : Iterate(it)
    \/ Return

Spec == Init /\ [][Next]_vars

-----------------------------------------------------------------------------
\* main, lines 115-149: the batch driver.
\*
\* A CSV cell is [text, json, items]: text stands for the cell's characters,
\* json for what json.loads makes of them ("invalid" when it raises, else
\* the type of the decoded value) and items for the decoded object's items.
\* A row is the sequence of its cells; the first cell of a header row is
\* given by its characters.

Cell(text, json, items) == [text |-> text, json |-> json, items |-> items]
IdCell(text) == Cell(text, "number", <<>>)

\* lines 138-141: json.loads(row[1]), or {} when it raises
Decode(cell) ==
    IF cell.json = "invalid"
    THEN [type |-> "object", items |-> <<>>]
    ELSE [type |-> cell.json, items |-> cell.items]

\* line 69: record.items() exists for a dict only; any other decoded value
\* raises AttributeError, which nothing in main catches.
HasItems(data) == data.type = "object"

\* json.dumps of a value: a str between quotes with its control characters
\* and quotes escaped, any other value as its JSON text
RECURSIVE Escaped(_)
Escaped(s) ==
    IF s = <<>> THEN <<>>
    ELSE (CASE s[1] = "\n" -> <<"\\", "n">>
            [] s[1] = "\t" -> <<"\\", "t">>
            [] s[1] = "\r" -> <<"\\", "r">>
            [] s[1] = "\"" -> <<"\\", "\"">>
            [] s[1] = "\\" -> <<"\\", "\\">>
            [] OTHER -> <<s[1]>>) \o Escaped(Tail(s))
DumpValue(v) == IF v.kind = "str" THEN <<"\"">> \o Escaped(v.s) \o <<"\"">> ELSE v.s
\* json.dumps(redacted): the members in the dict's order
json_dumps(d) == [i \in 1..Len(d) |-> <<d[i].key, DumpValue(d[i].val)>>]

\* str(pii_flag)
PyStr(b) == IF b THEN "True" ELSE "False"

RECORD_ID == <<"r", "e", "c", "o", "r", "d", "_", "i", "d">>
MinCols == 2
\* line 135
TooShortBelow3(row) == Len(row) < 3
TooShort(row) == Len(row) < MinCols

\* line 129
HeaderOk(h) == StartsWith(Lower(h[1]), RECORD_ID)

\* lines 143-149
OutRow(row) ==
    LET res == process_record(Decode(row[2]).items)
    IN  [record_id |-> row[1].text,
         redacted_data_json |-> json_dumps(res[1]),
         is_pii |-> PyStr(res[2])]

Headers ==
    {<<<<"r", "e", "c", "o", "r", "d", "_", "i", "d">>, <<"d", "a", "t", "a", "_", "j", "s", "o", "n">>>>,
     <<<<"R", "e", "c", "o", "r", "d", "_", "I", "D">>>>,
     <<<<"i", "d">>, <<"d", "a", "t", "a">>>>,
     <<>>}

DataRows ==
    {<<>>,
     <<IdCell("1")>>,
     <<IdCell("2"), Cell("p2", "object", <<Item("phone", PhoneOk)>>)>>,
     <<IdCell("3"), Cell("p3", "object",
                         <<Item("name", NameTwo), Item("email", EmailOk)>>)>>,
     <<IdCell("4"), Cell("p4", "object", <<>>), IdCell("0")>>,
     <<IdCell("5"), Cell("p5", "invalid", <<>>)>>,
     <<IdCell("6"), Cell("p6", "array", <<>>)>>,
     <<IdCell("7"), Cell("p7", "null", <<>>)>>,
     <<IdCell("8"), Cell("p8", "string", <<>>)>>}

\* line 127 on an empty file: next(reader) raises StopIteration
EmptyFile ==
    /\ mpc = "start"
    /\ mpc' = "failed"
    /\ UNCHANGED <<header, rows, out, coreVars>>

\* lines 127-132: header[0] raises IndexError on a blank first line; under
\* a first column that does not start with record_id nothing more is read
\* and nothing is written
ReadHeader(h) ==
    /\ mpc = "start"
    /\ header' = h
    /\ mpc' = IF h = <<>> THEN "failed"
              ELSE IF HeaderOk(h) THEN "rows"
              ELSE "done"
    /\ UNCHANGED <<rows, out, coreVars>>

\* lines 134-149: one iteration of the loop over the reader
ReadRow(row) ==
    /\ mpc = "rows"
    /\ Len(rows) < MaxRows
    /\ rows' = Append(rows, row)
    /\ IF TooShort(row)
       THEN UNCHANGED <<mpc, out>>
       ELSE IF HasItems(Decode(row[2]))
       THEN /\ out' = Append(out, OutRow(row))
            /\ UNCHANGED mpc
       ELSE /\ mpc' = "failed"
            /\ UNCHANGED out
    /\ UNCHANGED <<header, coreVars>>

\* the reader is exhausted
EndOfFile ==
    /\ mpc = "rows"
    /\ mpc' = "done"
    /\ UNCHANGED <<header, rows, out, coreVars>>

NextMain ==
    \/ EmptyFile
    \/ \E h \in Headers : ReadHeader(h)
    \/ \E row \in DataRows : ReadRow(row)
    \/ EndOfFile

SpecMain == Init /\ [][NextMain]_vars

-----------------------------------------------------------------------------
\* Properties of process_record.

Done == pc = "done"
ComboKeySet == {ComboKeys[i] : i \in 1..Len(ComboKeys)}
\* the positions of the items of rec that took a standalone branch, and the
\* field names that took a combinatorial branch
StandaloneHits(rec) ==
    {i \in 1..Len(rec) : Branch(rec[i].key, rec[i].val) \in StandaloneKeys}
ComboHits(rec) ==
    {rec[i].key : i \in {j \in 1..Len(rec) :
                            Branch(rec[j].key, rec[j].val) \in ComboKeySet}}

\* C1: the returned is_pii is true if and only if at least one field was
\* classified Standalone or at least two distinct fields were classified
\* Combinatorial, whatever the order of the fields.
C1_VerdictIff ==
    Done => (is_pii <=> (StandaloneHits(record) # {}
                            \/ Cardinality(ComboHits(record)) >= 2))
C1_Witness ==
    /\ Done
    /\ is_pii
    /\ StandaloneHits(record) = {}
    /\ Cardinality(ComboHits(record)) = 2
    /\ Len(record) = 3

\* C2: with fewer than two combinatorial hits every provisionally masked
\* combinatorial field is returned with its original value and every
\* standalone field with its mask; with two or more hits every combinatorial
\* mask is kept.
C2_Rollback ==
    Done =>
        \A i \in 1..Len(record) :
            LET key == record[i].key
                val == record[i].val
                b == Branch(key, val)
            IN  /\ b \in StandaloneKeys =>
                       Get(redacted, key) = Str(Masked(b, val.s))
                /\ b \in ComboKeySet =>
                       IF Cardinality(ComboHits(record)) < 2
                       THEN Get(redacted, key) = val
                       ELSE Get(redacted, key) = Str(Masked(b, val.s))
C2_Witness ==
    /\ Done
    /\ StandaloneHits(record) # {}
    /\ Cardinality(ComboHits(record)) = 1
    /\ \A i \in 1..Len(record) :
           Branch(record[i].key, record[i].val) \in ComboKeySet
               => /\ Get(redacted, record[i].key) = record[i].val
                  /\ Str(Masked(record[i].key, record[i].val.s)) # record[i].val

\* C3: the redacted mapping has the keys of the input fields processed so
\* far, in the same order, after each loop iteration and at the return.
C3_SameKeys == Keys(redacted) = Keys(record)
C3_Witness ==
    /\ Done
    /\ Len(record) = 3
    /\ ComboHits(record) = {record[1].key}
    /\ Keys(redacted) = Keys(record)

\* C8: the result of a call is the result for its record processed alone,
\* whatever calls came before it.
C8_NoCarryOver == Done => <<redacted, is_pii>> = process_record(record)
C8_Witness ==
    /\ Done
    /\ prev_pii
    /\ Cardinality(ComboHits(record)) = 1
    /\ ~is_pii

\* The number of "@" of a string, and the place of its first "@".
AtCount(s) == Cardinality({i \in 1..Len(s) : s[i] = "@"})
FirstAt(s) == CHOOSE i \in 1..Len(s) : s[i] = "@" /\ \A k \in 1..(i - 1) : s[k] # "@"

\* C9: an email value with an "@" counts as a combinatorial hit; in a record
\* that reaches the threshold it is returned as at most 2 characters of the
\* local part, "XXX@" and the domain when it has one "@", and as the sentinel
\* when it has more; an email value with no "@" is returned unchanged.
C9_Email ==
    Done =>
        \A i \in 1..Len(record) :
            (record[i].key = "email" /\ record[i].val.kind = "str") =>
                LET s == record[i].val.s
                    a == FirstAt(s)
                IN  IF AtCount(s) = 0
                    THEN /\ ~combo_flags["email"]
                         /\ Get(redacted, "email") = record[i].val
                    ELSE /\ combo_flags["email"]
                         /\ FlagCount(combo_flags) >= 2 =>
                                Get(redacted, "email").s =
                                    IF AtCount(s) = 1
                                    THEN SubSeq(s, 1, IF a > 2 THEN 2 ELSE a - 1)
                                             \o <<"X", "X", "X", "@">>
                                             \o SubSeq(s, a + 1, Len(s))
                                    ELSE REDACTED_EMAIL
C9_Witness ==
    /\ Done
    /\ Len(record) = 2
    /\ is_pii
    /\ \E i \in 1..2 : record[i] = Item("email", EmailTwoAt)
    /\ Get(redacted, "email") = Str(REDACTED_EMAIL)

\* C10: a record returned with is_pii = false is returned unchanged.
C10_UnflaggedUnchanged == (Done /\ ~is_pii) => redacted = record
C10_Witness ==
    /\ Done
    /\ ~is_pii
    /\ Len(record) = 3
    /\ Cardinality(ComboHits(record)) = 1
    /\ \E i \in 1..3 : record[i].val.kind # "str"

\* C4: an empty address or ip_address is NonPII: it is returned unchanged
\* and does not count toward the threshold of two combinatorial hits.
NonEmptyComboHits(rec) ==
    {k \in ComboHits(rec) :
        k \in {"address", "ip_address"} => Get(rec, k) # Empty}
C4_EmptyIsNonPII ==
    Done =>
        /\ \A i \in 1..Len(record) :
               (record[i].key \in {"address", "ip_address"} /\ record[i].val = Empty)
                   => Get(redacted, record[i].key) = Empty
        /\ is_pii => (StandaloneHits(record) # {}
                         \/ Cardinality(NonEmptyComboHits(record)) >= 2)

\* C7: a phone (aadhar) string is Standalone exactly when it is 10 (12)
\* decimal digits and nothing else; any other string is returned unchanged
\* and does not set is_pii.
ExactDigits(s, n) == Len(s) = n /\ \A i \in 1..Len(s) : s[i] \in Digits
C7_ExactDigitsOnly ==
    Done =>
        \A i \in 1..Len(record) :
            LET key == record[i].key
                val == record[i].val
                n == IF key = "phone" THEN 10 ELSE 12
            IN  (key \in {"phone", "aadhar"} /\ val.kind = "str") =>
                    IF ExactDigits(val.s, n)
                    THEN is_pii /\ Get(redacted, key) # val
                    ELSE /\ Get(redacted, key) = val
                         /\ Len(record) = 1 => ~is_pii

-----------------------------------------------------------------------------
\* Properties of main.

\* The rows read so far, and whether the last of them ended the run.
Undecodable(cell) == cell.json # "object"
Handled == IF mpc = "failed" /\ rows # <<>> THEN Len(rows) - 1 ELSE Len(rows)
RECURSIVE IdsOfLong(_)
IdsOfLong(rs) ==
    IF rs = <<>> THEN <<>>
    ELSE (IF Len(rs[1]) >= 2 THEN <<rs[1][1].text>> ELSE <<>>) \o IdsOfLong(Tail(rs))
OutIds == [i \in 1..Len(out) |-> out[i].record_id]

\* C5: a row whose payload is not decodable into a field mapping (invalid
\* JSON, or JSON that is not an object) gives an output row with an empty
\* redacted mapping and is_pii = false, and does not make the run fail.
C5_UndecodableTolerated ==
    \A i \in 1..Len(rows) :
        (Len(rows[i]) >= 2 /\ Undecodable(rows[i][2])) =>
            /\ ~(mpc = "failed" /\ i = Len(rows))
            /\ \E j \in 1..Len(out) :
                   out[j] = [record_id |-> rows[i][1].text,
                             redacted_data_json |-> <<>>,
                             is_pii |-> "False"]

\* C6 as stated: when the run ends, every input data row has exactly one
\* output row, with its record identifier, in the input's order.
C6_EveryRowOnce ==
    mpc = "done" =>
        /\ Len(out) = Len(rows)
        /\ \A i \in 1..Len(rows) :
               Len(rows[i]) >= 1 /\ out[i].record_id = rows[i][1].text

\* C6 as amended: the output rows are at every moment, in the input's order,
\* one row for each data row of at least two columns handled so far, with
\* that row's first column as record identifier; a header whose first column
\* does not start with record_id gives no output row; and a run that ends
\* normally under such a header has handled every data row.
C6_LongRowsOnce ==
    /\ OutIds = IdsOfLong(SubSeq(rows, 1, Handled))
    /\ (mpc = "done" /\ ~HeaderOk(header)) => (rows = <<>> /\ out = <<>>)
C6_Witness ==
    /\ mpc = "done"
    /\ Len(rows) = 3
    /\ Len(rows[1]) < 2
    /\ Len(rows[2]) >= 2
    /\ Len(rows[3]) >= 2
    /\ OutIds = <<rows[2][1].text, rows[3][1].text>>

====
